---------------------------- MODULE Spec2Model ----------------------------
(***************************************************************************)
(* Model of cronner's job cache (src/src/cronner/cache.py): a Cache object *)
(* wrapping one SQLite connection over a backing file with two tables,     *)
(* jobs and history.                                                       *)
(*                                                                         *)
(* The backing file holds the committed rows (file_jobs, file_history).    *)
(* The connection works inside one implicit transaction that is committed  *)
(* only by __del__; jobs and history are the rows as the connection sees   *)
(* them (committed rows plus its own uncommitted writes).  After __del__   *)
(* they keep the rows the last connection had written, so that a reopen    *)
(* can be compared with them.  sched is the scheduler's side of the        *)
(* collaborator protocol: per job id, whether it has seen the definition   *)
(* and how many times it has executed the job.                             *)
(***************************************************************************)
EXTENDS Integers, Sequences, FiniteSets, TLC

VARIABLES isfile, file_jobs, file_history, CACHE, foreign_keys, jobs, history, last, sched

vars == <<isfile, file_jobs, file_history, CACHE, foreign_keys, jobs, history, last, sched>>

(***************************************************************************)
(* Bounds of the model.                                                    *)
(***************************************************************************)
\* add_result is not offered once history holds this many rows
MaxHistory == 2
\* the scheduler executes each job at most this many times
MaxRuns == 2

(***************************************************************************)
(* Values.  A Python/SQLite value is a record [t, n, s]: t is the storage  *)
(* class, n the number and s the text.  None and NULL are the "null"       *)
(* value.  A "real" carries its value in halves (n = 3 is 1.5), an "int"   *)
(* carries it as is, so int 1 and real 1.0 (n = 2) are different values    *)
(* that Python compares equal.                                             *)
(***************************************************************************)
None == [t |-> "null", n |-> 0, s |-> ""]
PyInt(i) == [t |-> "int", n |-> i, s |-> ""]
PyFloat(h) == [t |-> "real", n |-> h, s |-> ""]
PyStr(x) == [t |-> "text", n |-> 0, s |-> x]

IsNum(v) == v.t \in {"int", "real"}
\* the numeric value in halves
Halves(v) == IF v.t = "int" THEN 2 * v.n ELSE v.n

\* Python's == on None, int, float and str
PyEq(x, y) == IF IsNum(x) /\ IsNum(y) THEN Halves(x) = Halves(y) ELSE x = y

(***************************************************************************)
(* Column affinity (CREATE TABLE, lines 64-72): what SQLite stores when a  *)
(* value is bound to a column of the declared type.                        *)
(***************************************************************************)
Digits == <<"0", "1", "2", "3", "4", "5", "6", "7", "8", "9">>
\* text of a small non-negative integer
IntText(i) == IF i \in 0 .. 9 THEN Digits[i + 1] ELSE Digits[(i \div 10) + 1] \o Digits[(i % 10) + 1]
\* text of a number as SQLite renders it: 1 -> "1", 1.5 -> "1.5", 1.0 -> "1.0"
NumText(v) ==
    IF v.t = "int" THEN IntText(v.n)
    ELSE IntText(v.n \div 2) \o (IF v.n % 2 = 0 THEN ".0" ELSE ".5")
\* the number a text looks like, or None
TextNum(x) ==
    IF \E i \in 0 .. 9 : Digits[i + 1] = x
    THEN PyInt(CHOOSE i \in 0 .. 9 : Digits[i + 1] = x)
    ELSE IF \E h \in 0 .. 19 : NumText(PyFloat(h)) = x
    THEN PyFloat(CHOOSE h \in 0 .. 19 : NumText(PyFloat(h)) = x)
    ELSE None

affinity_TEXT(v) == IF IsNum(v) THEN PyStr(NumText(v)) ELSE v
affinity_REAL(v) ==
    LET w == IF v.t = "text" /\ TextNum(v.s) # None THEN TextNum(v.s) ELSE v
    IN  IF w.t = "int" THEN PyFloat(2 * w.n) ELSE w
affinity_INTEGER(v) ==
    LET w == IF v.t = "text" /\ TextNum(v.s) # None THEN TextNum(v.s) ELSE v
    IN  IF w.t = "real" /\ w.n % 2 = 0 THEN PyInt(w.n \div 2) ELSE w


(***************************************************************************)
(* Job dictionaries, rows and the conversions between them.                *)
(***************************************************************************)
JobKeys == <<"id", "description", "last-run", "next-run", "last-run-result">>

Job(id, description, lr, nr, res) ==
    [k \in {JobKeys[i] : i \in 1 .. 5} |->
        CASE k = "id" -> id
          [] k = "description" -> description
          [] k = "last-run" -> lr
          [] k = "next-run" -> nr
          [] OTHER -> res]

\* the arguments of calls that take no job dictionary
NoJob == Job(None, None, None, None, None)
IdOnly(id) == Job(id, None, None, None, None)

\* faulty variant of jobs_row: last-run and next-run bound in the wrong order
jobs_row_swapped(job) ==
    [hash |-> affinity_TEXT(job["id"]),
     description |-> affinity_TEXT(job["description"]),
     last_run |-> affinity_REAL(job["next-run"]),
     next_run |-> affinity_REAL(job["last-run"]),
     last_run_result |-> affinity_INTEGER(job["last-run-result"])]

\* the tuple bound by add_job (lines 120-121), as the jobs columns store it
jobs_row(job) ==
    [hash |-> affinity_TEXT(job["id"]),
     description |-> affinity_TEXT(job["description"]),
     last_run |-> affinity_REAL(job["last-run"]),
     next_run |-> affinity_REAL(job["next-run"]),
     last_run_result |-> affinity_INTEGER(job["last-run-result"])]

\* the tuple bound by add_result (lines 132-134), as the history columns store it
history_row(job) ==
    [hash |-> affinity_TEXT(job["id"]),
     description |-> affinity_TEXT(job["description"]),
     time |-> affinity_REAL(job["last-run"]),
     result |-> affinity_INTEGER(job["last-run-result"])]

\* SELECT * yields the columns in declaration order
select_star(r) == <<r.hash, r.description, r.last_run, r.next_run, r.last_run_result>>

\* dict(zip(keys, item)) of get (lines 96-98)
dict_zip(item) == [k \in {JobKeys[i] : i \in 1 .. 5} |-> item[CHOOSE i \in 1 .. 5 : JobKeys[i] = k]]

\* WHERE hash=? : the parameter takes the column's TEXT affinity, NULL matches nothing
where_hash(r, id) == id # None /\ r.hash = affinity_TEXT(id)

(***************************************************************************)
(* Constraints of the schema (lines 64-72) and the pragma (line 51).       *)
(***************************************************************************)
\* hash TEXT NOT NULL, description TEXT NOT NULL
not_null_ok(row) == row.hash # None /\ row.description # None

\* faulty variant of unique_ok: the column declared without UNIQUE PRIMARY KEY
unique_ok_undeclared(table, row) == TRUE

\* hash UNIQUE PRIMARY KEY
unique_ok(table, row) == \A r \in table : r.hash # row.hash

\* faulty variant of PRAGMA_foreign_keys: SQLite's default when the pragma is not issued
PRAGMA_foreign_keys_default == FALSE

\* PRAGMA foreign_keys = ON (line 51)
PRAGMA_foreign_keys == TRUE

\* FOREIGN KEY(hash) REFERENCES jobs(hash); a NULL child key is not checked
foreign_key_ok(table, row, enforced) ==
    ~enforced \/ row.hash = None \/ \E r \in table : r.hash = row.hash

(***************************************************************************)
(* Return values: what a call returned (kind, dict) or raised (exc).       *)
(***************************************************************************)
Returned(kind) == [exc |-> "", kind |-> kind, dict |-> NoJob]
ReturnedDict(d) == [exc |-> "", kind |-> "dict", dict |-> d]
Raised(e) == [exc |-> e, kind |-> "", dict |-> NoJob]

Call(op, job, ret) == [op |-> op, job |-> job, ret |-> ret]

(***************************************************************************)
(* Inputs.                                                                 *)
(***************************************************************************)
Ids == {PyStr("a"), PyStr("b"), None}
\* a job never run; the same id with another description, an int where the
\* column is REAL and a float where it is INTEGER; a second job; a null id
JobDicts ==
    {Job(PyStr("a"), PyStr("d1"), None, None, None),
     Job(PyStr("a"), PyStr("d2"), PyInt(2), PyFloat(5), PyFloat(2)),
     Job(PyStr("b"), PyStr("d1"), PyFloat(3), PyFloat(5), PyInt(0)),
     Job(None, PyStr("d1"), PyFloat(3), PyFloat(5), PyInt(0))}

(***************************************************************************)
(* Pure parts of the operations.                                           *)
(***************************************************************************)
\* cur.execute('SELECT count(*) ...') returns the cursor itself (line 84)
execute_count(table, id) ==
    [type |-> "Cursor", count |-> Cardinality({r \in table : where_hash(r, id)})]

\* bool() of a Python object: a Cursor defines neither __bool__ nor __len__,
\* so it is true whatever rows it holds
bool(obj) == IF obj.type = "Cursor" THEN TRUE ELSE obj.count # 0

has_result(table, job) == bool(execute_count(table, job["id"]))

\* get (lines 93-100)
get_result(table, id) ==
    LET found == {r \in table : where_hash(r, id)}
    IN  IF found # {}
        THEN ReturnedDict(dict_zip(select_star(CHOOSE r \in found : TRUE)))
        ELSE Returned("None")

\* faulty variant of update_rows: the description is overwritten as well
update_rows_description(table, job) ==
    {IF where_hash(r, job["id"])
     THEN [r EXCEPT !.description = affinity_TEXT(job["description"]),
                    !.last_run = affinity_REAL(job["last-run"]),
                    !.next_run = affinity_REAL(job["next-run"]),
                    !.last_run_result = affinity_INTEGER(job["last-run-result"])]
     ELSE r : r \in table}

\* faulty variant of update_rows: a missing row is inserted (an upsert)
update_rows_upsert(table, job) ==
    IF \E r \in table : where_hash(r, job["id"])
    THEN {IF where_hash(r, job["id"])
          THEN [r EXCEPT !.last_run = affinity_REAL(job["last-run"]),
                         !.next_run = affinity_REAL(job["next-run"]),
                         !.last_run_result = affinity_INTEGER(job["last-run-result"])]
          ELSE r : r \in table}
    ELSE table \cup {jobs_row(job)}

\* UPDATE jobs SET ... WHERE hash=? (lines 109-111)
update_rows(table, job) ==
    {IF where_hash(r, job["id"])
     THEN [r EXCEPT !.last_run = affinity_REAL(job["last-run"]),
                    !.next_run = affinity_REAL(job["next-run"]),
                    !.last_run_result = affinity_INTEGER(job["last-run-result"])]
     ELSE r : r \in table}

\* faulty variant of insert_history: a row already in the history is not added again
insert_history_distinct(rows, row) ==
    IF \E i \in 1 .. Len(rows) : rows[i] = row THEN rows ELSE Append(rows, row)

\* faulty variant of insert_history: the job's earlier rows are replaced
insert_history_latest(rows, row) ==
    SelectSeq(rows, LAMBDA x : x.hash # row.hash) \o <<row>>

\* INSERT INTO history (line 133)
insert_history(rows, row) == Append(rows, row)

\* faulty variant of conn_commit: the connection is closed without a commit
conn_close_only(seen, committed) == committed

\* conn.commit() (line 56): the file takes the connection's rows
conn_commit(seen, committed) == seen

(***************************************************************************)
(* State machine.                                                          *)
(***************************************************************************)
Init ==
    /\ isfile = FALSE
    /\ file_jobs = {}
    /\ file_history = <<>>
    /\ CACHE = "None"
    /\ foreign_keys = FALSE
    /\ jobs = {}
    /\ history = <<>>
    /\ last = Call("start", NoJob, Returned("None"))
    /\ sched = [id \in Ids \ {None} |-> [seen |-> FALSE, runs |-> 0]]

\* get_cache (lines 28-33) with _init, Cache.__init__ (43-51) and _create (59-75)
get_cache ==
    /\ IF CACHE = "None"
       THEN /\ isfile' = TRUE
            /\ file_jobs' = (IF isfile THEN file_jobs ELSE {})
            /\ file_history' = (IF isfile THEN file_history ELSE <<>>)
            /\ jobs' = file_jobs'
            /\ history' = file_history'
            /\ foreign_keys' = PRAGMA_foreign_keys
            /\ CACHE' = "Cache"
            /\ last' = Call("get_cache", NoJob, Returned("Cache()"))
       ELSE /\ UNCHANGED <<isfile, file_jobs, file_history, jobs, history, foreign_keys, CACHE>>
            /\ last' = Call("get_cache", NoJob, Returned("CACHE"))
    /\ UNCHANGED sched

\* Cache.__del__ (lines 53-57)
del ==
    /\ CACHE = "Cache"
    /\ file_jobs' = conn_commit(jobs, file_jobs)
    /\ file_history' = conn_commit(history, file_history)
    /\ CACHE' = "None"
    /\ foreign_keys' = FALSE
    /\ last' = Call("del", NoJob, Returned("None"))
    /\ UNCHANGED <<isfile, jobs, history, sched>>

\* Cache.has (lines 77-84)
has(job) ==
    /\ CACHE = "Cache"
    /\ last' = Call("has", job, Returned(IF has_result(jobs, job) THEN "True" ELSE "False"))
    /\ UNCHANGED <<isfile, file_jobs, file_history, CACHE, foreign_keys, jobs, history, sched>>

\* Cache.get (lines 86-100)
get(id) ==
    /\ CACHE = "Cache"
    /\ last' = Call("get", IdOnly(id), get_result(jobs, id))
    /\ UNCHANGED <<isfile, file_jobs, file_history, CACHE, foreign_keys, jobs, history, sched>>

\* Cache.update (lines 102-111): no return statement, so None
update(job) ==
    /\ CACHE = "Cache"
    /\ jobs' = update_rows(jobs, job)
    /\ last' = Call("update", job, Returned("None"))
    /\ UNCHANGED <<isfile, file_jobs, file_history, CACHE, foreign_keys, history, sched>>

\* the outcome of INSERT INTO jobs (line 120) on a table
add_job_result(table, job) ==
    IF ~not_null_ok(jobs_row(job)) THEN Raised("IntegrityError: NOT NULL constraint failed")
    ELSE IF ~unique_ok(table, jobs_row(job)) THEN Raised("IntegrityError: UNIQUE constraint failed")
    ELSE Returned("True")

\* Cache.add_job (lines 113-123)
add_job(job) ==
    /\ CACHE = "Cache"
    /\ jobs' = (IF add_job_result(jobs, job).exc = "" THEN jobs \cup {jobs_row(job)} ELSE jobs)
    /\ last' = Call("add_job", job, add_job_result(jobs, job))
    /\ UNCHANGED <<isfile, file_jobs, file_history, CACHE, foreign_keys, history, sched>>

\* the outcome of INSERT INTO history (line 133)
add_result_result(table, job, enforced) ==
    IF ~foreign_key_ok(table, history_row(job), enforced)
    THEN Raised("IntegrityError: FOREIGN KEY constraint failed")
    ELSE Returned("True")

\* Cache.add_result (lines 125-136)
add_result(job) ==
    /\ CACHE = "Cache"
    /\ Len(history) < MaxHistory
    /\ history' = (IF add_result_result(jobs, job, foreign_keys).exc = ""
                   THEN insert_history(history, history_row(job)) ELSE history)
    /\ last' = Call("add_result", job, add_result_result(jobs, job, foreign_keys))
    /\ UNCHANGED <<isfile, file_jobs, file_history, CACHE, foreign_keys, jobs, sched>>

Next ==
    \/ get_cache
    \/ del
    \/ \E job \in JobDicts : has(job)
    \/ \E id \in Ids : get(id)
    \/ \E job \in JobDicts : update(job)
    \/ \E job \in JobDicts : add_job(job)
    \/ \E job \in JobDicts : add_result(job)

Spec == Init /\ [][Next]_vars

(***************************************************************************)
(* The scheduler's use of the cache: on a job definition, has() and, if    *)
(* it answered False, add_job() with null run fields; after an execution,  *)
(* update() and then add_result().                                         *)
(***************************************************************************)
Descriptions == {PyStr("d1"), PyStr("d2")}
JobDefs == {Job(id, d, None, None, None) : id \in Ids \ {None}, d \in Descriptions}
Executions ==
    {Job(id, d, ri[1], ri[2], ri[3]) :
        id \in Ids \ {None}, d \in Descriptions,
        ri \in {<<PyFloat(3), PyFloat(5), PyInt(0)>>, <<PyFloat(7), PyFloat(9), PyInt(1)>>}}

sched_define(job) ==
    /\ CACHE = "Cache"
    /\ IF has_result(jobs, job)
       THEN /\ last' = Call("has", job, Returned("True"))
            /\ UNCHANGED jobs
       ELSE /\ jobs' = (IF add_job_result(jobs, job).exc = "" THEN jobs \cup {jobs_row(job)} ELSE jobs)
            /\ last' = Call("add_job", job, add_job_result(jobs, job))
    /\ sched' = [sched EXCEPT ![job["id"]].seen = TRUE]
    /\ UNCHANGED <<isfile, file_jobs, file_history, CACHE, foreign_keys, history>>

sched_execute(job) ==
    /\ CACHE = "Cache"
    /\ sched[job["id"]].seen
    /\ sched[job["id"]].runs < MaxRuns
    /\ jobs' = update_rows(jobs, job)
    /\ history' = (IF add_result_result(jobs', job, foreign_keys).exc = ""
                   THEN insert_history(history, history_row(job)) ELSE history)
    /\ last' = Call("add_result", job, add_result_result(jobs', job, foreign_keys))
    /\ sched' = [sched EXCEPT ![job["id"]].runs = @ + 1]
    /\ UNCHANGED <<isfile, file_jobs, file_history, CACHE, foreign_keys>>

NextSched ==
    \/ get_cache
    \/ \E job \in JobDefs : sched_define(job)
    \/ \E job \in Executions : sched_execute(job)

SpecSched == Init /\ [][NextSched]_vars

(***************************************************************************)
(* Properties.                                                             *)
(***************************************************************************)
UniqueError == Raised("IntegrityError: UNIQUE constraint failed")
ForeignKeyError == Raised("IntegrityError: FOREIGN KEY constraint failed")

\* the jobs table holds a row for the id
HasRow(table, id) == \E r \in table : r.hash = id
\* the rows of the history that belong to the id
RowsFor(rows, id) == {i \in 1 .. Len(rows) : rows[i].hash = id}
IsPrefix(p, q) == Len(p) <= Len(q) /\ \A i \in 1 .. Len(p) : p[i] = q[i]
\* two job dictionaries equal, field by field, as Python compares them
SameJob(d, job) == \A k \in DOMAIN job : PyEq(d[k], job[k])
\* the run fields of a get result are those of the job dictionary
SameRunInfo(d, job) == \A k \in {"last-run", "next-run", "last-run-result"} : PyEq(d[k], job[k])
\* a Job record of the data model: a string id and a string description
ValidJob(job) == job["id"].t = "text" /\ job["description"].t = "text"

\* C1: has() answers False while no insert of the id has succeeded and True
\* once one has (a jobs row, once inserted, stays).
C1_has_reflects_inserts ==
    last.op = "has" => (last.ret.kind = "True" <=> HasRow(jobs, last.job["id"]))

\* C2: add_job of a valid record whose id has no jobs row succeeds, and get of
\* that id then returns a dictionary equal to the inserted one in all five
\* fields; get of an id without a jobs row returns None.
C2_insert_then_get ==
    [][/\ (last'.op = "add_job" /\ ValidJob(last'.job) /\ ~HasRow(jobs, last'.job["id"]))
            => /\ last'.ret = Returned("True")
               /\ get_result(jobs', last'.job["id"]).kind = "dict"
               /\ SameJob(get_result(jobs', last'.job["id"]).dict, last'.job)
       /\ (last'.op = "get" /\ ~HasRow(jobs', last'.job["id"]))
            => last'.ret = Returned("None")]_vars

\* C2 witness: a job with null run fields was inserted, alongside another job
C2_witness ==
    /\ last.op = "add_job" /\ last.ret = Returned("True")
    /\ last.job["last-run"] = None /\ last.job["last-run-result"] = None
    /\ Cardinality(jobs) = 2

\* C3: add_job for an id that has a jobs row raises the UNIQUE IntegrityError
\* and leaves the jobs table as it was, get(id) returns what it returned
\* before, and no two jobs rows ever share an id.
C3_duplicate_insert_rejected ==
    [][/\ (last'.op = "add_job" /\ HasRow(jobs, last'.job["id"]))
            => /\ last'.ret = UniqueError
               /\ jobs' = jobs
               /\ get_result(jobs', last'.job["id"]) = get_result(jobs, last'.job["id"])
       /\ \A r1, r2 \in jobs' : r1.hash = r2.hash => r1 = r2]_vars

\* C3 witness: a rejected insert that carried another description than the row
C3_witness ==
    /\ last.op = "add_job" /\ last.ret = UniqueError
    /\ \E r \in jobs : r.hash = last.job["id"] /\ r.description # last.job["description"]

\* C4: update of an existing id sets that row's three run fields to the
\* supplied values, keeps its id and description, keeps every other row and
\* the history, and get(id) returns the new run fields.
C4_update_frame ==
    [][(last'.op = "update" /\ HasRow(jobs, last'.job["id"]))
        => /\ \E r \in jobs, u \in jobs' :
                /\ r.hash = last'.job["id"] /\ u.hash = r.hash
                /\ u.description = r.description
                /\ PyEq(u.last_run, last'.job["last-run"])
                /\ PyEq(u.next_run, last'.job["next-run"])
                /\ PyEq(u.last_run_result, last'.job["last-run-result"])
                /\ jobs' \ {u} = jobs \ {r}
           /\ Cardinality(jobs') = Cardinality(jobs)
           /\ history' = history
           /\ get_result(jobs', last'.job["id"]).kind = "dict"
           /\ SameRunInfo(get_result(jobs', last'.job["id"]).dict, last'.job)]_vars

\* C4 witness: an update whose dictionary carries another description than the
\* row, with another job and a history row present
C4_witness ==
    /\ last.op = "update" /\ last.job["last-run"] # None
    /\ \E r \in jobs : r.hash = last.job["id"] /\ r.description # last.job["description"]
    /\ Cardinality(jobs) = 2
    /\ Len(history) > 0

\* C5 as claimed: every add_result call leaves its own row, with the call's
\* id, time and result, at the end of the history.
C5_every_call_appends ==
    last.op = "add_result"
        => /\ Len(history) > 0
           /\ history[Len(history)].hash = last.job["id"]
           /\ PyEq(history[Len(history)].time, last.job["last-run"])
           /\ PyEq(history[Len(history)].result, last.job["last-run-result"])

\* C5 amended: add_result for an id that has a jobs row appends exactly one
\* row carrying the call's id, time and result, also when an identical row
\* is already there, and no other operation changes the history.
C5_append_for_known_job ==
    [][/\ (last'.op = "add_result" /\ HasRow(jobs, last'.job["id"]))
            => /\ last'.ret = Returned("True")
               /\ Len(history') = Len(history) + 1
               /\ IsPrefix(history, history')
               /\ history'[Len(history')].hash = last'.job["id"]
               /\ PyEq(history'[Len(history')].time, last'.job["last-run"])
               /\ PyEq(history'[Len(history')].result, last'.job["last-run-result"])
       /\ last'.op # "add_result" => history' = history]_vars

\* C5 witness: the same row appended twice
C5_witness ==
    /\ last.op = "add_result" /\ last.ret = Returned("True")
    /\ Len(history) = 2 /\ history[1] = history[2]
    /\ HasRow(jobs, last.job["id"])

\* C6: under the scheduler's protocol every cache call succeeds, a job the
\* scheduler has seen is in the cache, after an execution get(id) returns its
\* run fields, and the history holds one row per execution of each job.
C6_protocol_succeeds ==
    /\ last.ret.exc = ""
    /\ \A id \in DOMAIN sched :
        /\ sched[id].seen => get_result(jobs, id).kind = "dict"
        /\ Cardinality(RowsFor(history, id)) = sched[id].runs
    /\ (last.op = "add_result" /\ get_result(jobs, last.job["id"]).kind = "dict")
            => SameRunInfo(get_result(jobs, last.job["id"]).dict, last.job)

\* C7: __del__ leaves in the file the rows the connection had, and opening an
\* existing file changes nothing in it and shows the rows seen before the close.
C7_close_reopen_preserves ==
    [][/\ last'.op = "del" => (file_jobs' = jobs /\ file_history' = history)
       /\ (last'.ret = Returned("Cache()") /\ isfile)
            => /\ jobs' = jobs /\ history' = history
               /\ file_jobs' = file_jobs /\ file_history' = file_history]_vars

\* C7 witness: a reopened store showing an updated job and two history rows
C7_witness ==
    /\ last.ret = Returned("Cache()")
    /\ \E r \in jobs : r.last_run # None
    /\ Len(history) = 2

\* C8: every step leaves the old history as a prefix of the new one, and
\* every id that had a jobs row still has one.
C8_append_only ==
    [][/\ IsPrefix(history, history')
       /\ \A r \in jobs : HasRow(jobs', r.hash)]_vars

\* C8 witness: an update after two history rows and two jobs were written
C8_witness ==
    /\ last.op = "update"
    /\ Len(history) = 2 /\ history[1].hash = history[2].hash
    /\ Cardinality(jobs) = 2

\* C9: update of an id without a jobs row returns without error, changes
\* neither table, and get(id) still returns None.
C9_update_missing_is_noop ==
    [][(last'.op = "update" /\ ~HasRow(jobs, last'.job["id"]))
        => /\ last'.ret.exc = ""
           /\ jobs' = jobs
           /\ history' = history
           /\ get_result(jobs', last'.job["id"]) = Returned("None")]_vars

\* C9 witness: an update of a string id with no row, while another job has one
C9_witness ==
    /\ last.op = "update" /\ last.job["id"] # None
    /\ ~HasRow(jobs, last.job["id"])
    /\ jobs # {}

\* C10 as claimed: every history row's id is the id of a jobs row.
C10_history_ids_are_jobs ==
    \A i \in 1 .. Len(history) : HasRow(jobs, history[i].hash)

\* C10 amended: add_result with a non-null id that has no jobs row raises the
\* FOREIGN KEY IntegrityError, and every history row's id is null or the id
\* of a jobs row.
C10_foreign_key_enforced ==
    /\ (last.op = "add_result" /\ last.job["id"] # None /\ ~HasRow(jobs, last.job["id"]))
            => last.ret = ForeignKeyError
    /\ \A i \in 1 .. Len(history) : history[i].hash = None \/ HasRow(jobs, history[i].hash)

\* C10 witness: a rejected add_result while the history holds a row
C10_witness ==
    /\ last.op = "add_result" /\ last.ret = ForeignKeyError
    /\ Len(history) > 0

=============================================================================
